---- MODULE Spec2Model ----
(***************************************************************************)
(* ProPrompter: the App component with its three views (Editor,            *)
(* Teleprompter, History), the session state of the TeleprompterView and   *)
(* its requestAnimationFrame scroll loop, and the persisted history list.  *)
(*                                                                         *)
(* Units.  speed and fontSize are kept in tenths (speed 2 is 20, a step of *)
(* 0.5 is 5, a slider step of 0.1 is 1).  scrollPos and offsetHeight are   *)
(* kept in hundredths of a pixel, so `prev + speed / 10` adds the speed in *)
(* tenths.  Date.now() is the variable now.                                *)
(*                                                                         *)
(* One action is one event handler together with the React re-render and   *)
(* the effects that the handler's state updates trigger.                   *)
(***************************************************************************)
EXTENDS Integers, Sequences, FiniteSets, TLC

VARIABLES
    now,                \* Date.now()
    view,               \* App: view
    promptsHistory,     \* App: promptsHistory (useLocalStorage)
    activePrompt,       \* App: activePrompt
    timers,             \* pending setTimeout(..., 0) closures of handleLoadPrompt
    prompt,             \* TeleprompterView: prompt
    isPlaying,          \* TeleprompterView: isPlaying
    scrollPos,          \* TeleprompterView: scrollPos
    startTime,          \* TeleprompterView: startTime
    animationFrameRef,  \* TeleprompterView: animationFrameRef.current
    frames,             \* pending requestAnimationFrame callbacks, each with its closure
    keyStartTime,       \* startTime as captured by the registered keydown listener
    offsetHeight,       \* contentRef.current.offsetHeight
    searchTerm,         \* HistoryView: searchTerm
    sortKey,            \* HistoryView: sortKey
    sortOrder,          \* HistoryView: sortOrder
    sessions,           \* number of handleStart calls so far: the mounted view instance
    changes,            \* number of EditorView changes and updateSetting calls so far
    toggles,            \* number of togglePlay calls so far
    played,             \* togglePlay has been called in the current session
    spans               \* TeleprompterView: the memoised parseText(prompt.text)

appVars == <<view, promptsHistory, activePrompt, timers>>
tpVars == <<prompt, isPlaying, scrollPos, startTime, animationFrameRef, frames,
            keyStartTime, offsetHeight, played, spans>>
histVars == <<searchTerm, sortKey, sortOrder>>
vars == <<now, view, promptsHistory, activePrompt, timers, prompt, isPlaying,
          scrollPos, startTime, animationFrameRef, frames,
          keyStartTime, offsetHeight, searchTerm, sortKey, sortOrder,
          sessions, changes, toggles, played, spans>>

----------------------------------------------------------------------------
(* Bounds of the model.                                                    *)

MaxClock == 2
MaxSessions == 2
MaxChanges == 1
MaxToggles == 2
MaxTimers == 1
MaxScroll == 600
MaxTextLen == 3

(* Values an absent optional field and an unset ref hold.                  *)
Undefined == -1
NoFrame == 0
InitialClock == 1

(* Inputs of the handlers.                                                 *)
UntitledPrompt == "Untitled Prompt"
WelcomeText == "Welcome to ProPrompter AI! Paste your script here. \n\nYou can **highlight** important text by wrapping it in double asterisks. \n\nAdd a [bookmark] to jump to specific sections."
Titles == {UntitledPrompt, "Talk now"}
Texts == {WelcomeText, "intro [one] **Now**"}
SearchTerms == {"", "now"}
(* What the range inputs (min 0 max 10, min 1 max 20) can deliver, and what *)
(* a caller of updateSetting can pass.                                     *)
SliderSpeeds == {0, 98}
SliderFontSizes == {10, 195}
AnySpeeds == {150}
AnyFontSizes == {250}
Heights == {0, 100}
FontStyles == {"font-inter", "font-lora", "font-roboto-mono"}
Alignments == {"left", "center", "right"}
Directions == {"ltr", "rtl"}

----------------------------------------------------------------------------
(* Pure helpers.                                                           *)

Min(a, b) == IF a < b THEN a ELSE b
Max(a, b) == IF a > b THEN a ELSE b

Digits == <<"0", "1", "2", "3", "4", "5", "6", "7", "8", "9">>

RECURSIVE toString(_)
toString(n) ==
    IF n < 10 THEN Digits[n + 1]
    ELSE toString(n \div 10) \o Digits[(n % 10) + 1]

(* !startTime: undefined and 0 are both falsy.                             *)
Falsy(t) == t = Undefined \/ t = 0

DEFAULT_SETTINGS ==
    [speed |-> 20, fontSize |-> 60, fontStyle |-> "font-inter",
     alignment |-> "center", mode |-> "night", direction |-> "ltr"]

(* createNewPrompt that drops the settings it is given.                    *)
createNewPromptDefault(settings, t1, t2) ==
    [id |-> toString(t1), title |-> UntitledPrompt, text |-> WelcomeText,
     settings |-> DEFAULT_SETTINGS, startTime |-> Undefined, endTime |-> Undefined,
     createdAt |-> t2]

(* createNewPrompt reads the clock twice: t1 for the id, t2 for createdAt. *)
createNewPrompt(settings, t1, t2) ==
    [id |-> toString(t1), title |-> UntitledPrompt, text |-> WelcomeText,
     settings |-> settings, startTime |-> Undefined, endTime |-> Undefined,
     createdAt |-> t2]

(* Two successive Date.now() reads: the second is the first or a later ms. *)
SecondRead(t) == {u \in {t, t + 1} : u <= MaxClock}

----------------------------------------------------------------------------
(* History query (HistoryView).                                            *)

UpperCase == "ABCDEFGHIJKLMNOPQRSTUVWXYZ"
LowerCase == "abcdefghijklmnopqrstuvwxyz"
(* Characters in code-unit order, from the space on; charCode is the rank  *)
(* of a character in it, control characters rank below the space.          *)
Ascii == " !#$%&'()*+,-./0123456789:;<=>?@ABCDEFGHIJKLMNOPQRSTUVWXYZ[]^_abcdefghijklmnopqrstuvwxyz{|}~"

CharAt(s, i) == SubSeq(s, i, i)

charCode(c) ==
    IF \E i \in 1..Len(Ascii) : CharAt(Ascii, i) = c
    THEN CHOOSE i \in 1..Len(Ascii) : CharAt(Ascii, i) = c
    ELSE 0

lowerChar(c) ==
    IF \E i \in 1..Len(UpperCase) : CharAt(UpperCase, i) = c
    THEN CharAt(LowerCase, CHOOSE i \in 1..Len(UpperCase) : CharAt(UpperCase, i) = c)
    ELSE c

RECURSIVE toLowerCase(_)
toLowerCase(s) ==
    IF Len(s) <= 1 THEN lowerChar(s)
    ELSE LET h == Len(s) \div 2
         IN toLowerCase(SubSeq(s, 1, h)) \o toLowerCase(SubSeq(s, h + 1, Len(s)))

includes(s, t) ==
    \E i \in 0..(Len(s) - Len(t)) : SubSeq(s, i + 1, i + Len(t)) = t

(* a < b on strings: by code units, a proper prefix is smaller.            *)
RECURSIVE stringLess(_, _)
stringLess(a, b) ==
    IF b = "" THEN FALSE
    ELSE IF a = "" THEN TRUE
    ELSE IF CharAt(a, 1) = CharAt(b, 1)
         THEN stringLess(SubSeq(a, 2, Len(a)), SubSeq(b, 2, Len(b)))
         ELSE charCode(CharAt(a, 1)) < charCode(CharAt(b, 1))

keyLess(a, b, key) ==
    IF key = "createdAt" THEN a.createdAt < b.createdAt
    ELSE stringLess(a.title, b.title)

(* The comparator handed to sort.                                          *)
compare(a, b, key, order) ==
    LET comparison == IF keyLess(b, a, key) THEN 1
                      ELSE IF keyLess(a, b, key) THEN -1
                      ELSE 0
    IN IF order = "desc" THEN 0 - comparison ELSE comparison

(* An insertion that puts x in front of the elements it compares equal to. *)
RECURSIVE insertSortedBeforeEquals(_, _, _, _)
insertSortedBeforeEquals(x, s, key, order) ==
    IF s = <<>> THEN <<x>>
    ELSE IF compare(Head(s), x, key, order) < 0
         THEN <<Head(s)>> \o insertSortedBeforeEquals(x, Tail(s), key, order)
         ELSE <<x>> \o s

(* Array.prototype.sort is stable: x goes behind everything not above it.  *)
RECURSIVE insertSorted(_, _, _, _)
insertSorted(x, s, key, order) ==
    IF s = <<>> THEN <<x>>
    ELSE IF compare(Head(s), x, key, order) <= 0
         THEN <<Head(s)>> \o insertSorted(x, Tail(s), key, order)
         ELSE <<x>> \o s

RECURSIVE sort(_, _, _)
sort(s, key, order) ==
    IF s = <<>> THEN <<>>
    ELSE insertSorted(s[Len(s)], sort(SubSeq(s, 1, Len(s) - 1), key, order), key, order)

(* s.toLowerCase().includes(term.toLowerCase()), tabulated over the strings *)
(* the handlers can be given.                                              *)
lowerIncludes ==
    [s \in Titles \cup Texts, t \in SearchTerms |->
        includes(toLowerCase(s), toLowerCase(t))]

(* A filter callback that looks at the title only.                        *)
matchesTitleOnly(p, term) == lowerIncludes[p.title, term]

matches(p, term) ==
    \/ lowerIncludes[p.title, term]
    \/ lowerIncludes[p.text, term]

filter(s, term) == SelectSeq(s, LAMBDA p : matches(p, term))

filteredAndSortedPrompts(prompts, term, key, order) ==
    sort(filter(prompts, term), key, order)

----------------------------------------------------------------------------
(* parseText.                                                              *)

(* The script texts given to parseText: every string of at most            *)
(* MaxTextLen of these characters.                                         *)
MarkupChars == {"*", "[", "]", "a", "\n"}

RECURSIVE StringsUpTo(_)
StringsUpTo(n) ==
    IF n = 0 THEN {""}
    ELSE LET shorter == StringsUpTo(n - 1)
         IN shorter \cup {s \o c : s \in shorter, c \in MarkupChars}

ParseTexts == StringsUpTo(MaxTextLen)

(* The characters the . of a regular expression does not match.            *)
LineTerminators == {"\n", "\r"}

startsWith(s, p) == Len(s) >= Len(p) /\ SubSeq(s, 1, Len(p)) = p
endsWith(s, p) == Len(s) >= Len(p) /\ SubSeq(s, Len(s) - Len(p) + 1, Len(s)) = p

(* s.slice(a, -b)                                                          *)
slice(s, a, b) == IF a + b >= Len(s) THEN "" ELSE SubSeq(s, a + 1, Len(s) - b)

(* .*? can run over text[a..b]                                             *)
dotRun(text, a, b) == \A k \in a..b : CharAt(text, k) \notin LineTerminators

(* The last index of the match of \*\*.*?\*\*|\[.*?\] that begins at i, or *)
(* 0 when there is none: the lazy quantifier takes the nearest closing.    *)
matchEnd(text, i) ==
    LET n == Len(text)
        closeStars == {j \in (i + 2)..(n - 1) :
                          SubSeq(text, j, j + 1) = "**" /\ dotRun(text, i + 2, j - 1)}
        closeBracket == {j \in (i + 1)..n :
                            CharAt(text, j) = "]" /\ dotRun(text, i + 1, j - 1)}
    IN IF i + 1 <= n /\ SubSeq(text, i, i + 1) = "**"
       THEN IF closeStars = {} THEN 0
            ELSE (CHOOSE j \in closeStars : \A k \in closeStars : j <= k) + 1
       ELSE IF CharAt(text, i) = "["
       THEN IF closeBracket = {} THEN 0
            ELSE CHOOSE j \in closeBracket : \A k \in closeBracket : j <= k
       ELSE 0

(* text.split(/(\*\*.*?\*\*|\[.*?\])/g) from index from on: the text       *)
(* before the leftmost match, the match, and the split of the rest.        *)
RECURSIVE split(_, _)
split(text, from) ==
    LET starts == {i \in from..Len(text) : matchEnd(text, i) # 0}
    IN IF starts = {}
       THEN <<IF from > Len(text) THEN "" ELSE SubSeq(text, from, Len(text))>>
       ELSE LET i == CHOOSE m \in starts : \A k \in starts : m <= k
                e == matchEnd(text, i)
            IN <<IF i = from THEN "" ELSE SubSeq(text, from, i - 1),
                 SubSeq(text, i, e)>> \o split(text, e + 1)

(* The element one part is rendered as, with the text put inside it.       *)
renderPart(part) ==
    IF startsWith(part, "**") /\ endsWith(part, "**")
    THEN [kind |-> "strong", text |-> slice(part, 2, 2)]
    ELSE IF startsWith(part, "[") /\ endsWith(part, "]")
    THEN [kind |-> "bookmark", text |-> slice(part, 1, 1)]
    ELSE [kind |-> "span", text |-> part]

parseText(text) ==
    LET parts == split(text, 1)
    IN [k \in 1..Len(parts) |-> renderPart(parts[k])]

(* useMemo(() => parseText(prompt.text)), tabulated over the texts a       *)
(* script can be given.                                                    *)
parsed == [s \in Texts \cup ParseTexts |-> parseText(s)]

----------------------------------------------------------------------------
(* requestAnimationFrame and the animation effect of TeleprompterView.     *)
(* A pending callback is [id, inst, scrollPos, speed]: its handle, the     *)
(* view instance it belongs to, and the scrollPos and speed its closure    *)
(* captured.  A handle is fresh among the pending handles and the ref.     *)

handles(fs) == {f.id : f \in fs}

requestAnimationFrame(fs, ref) ==
    CHOOSE n \in 1..(Cardinality(fs) + 2) :
        /\ n \notin handles(fs) \cup {ref}
        /\ \A m \in 1..(n - 1) : m \in handles(fs) \cup {ref}

(* A cancelAnimationFrame that cancels nothing.                            *)
cancelNothing(fs, id) == fs

cancelAnimationFrame(fs, id) == {f \in fs : f.id # id}

(* A cleanup that cancels nothing.                                         *)
animationCleanupKeep(fs, ref) == fs

(* The cleanup the effect returns.                                         *)
animationCleanup(fs, ref) ==
    IF ref # NoFrame THEN cancelAnimationFrame(fs, ref) ELSE fs

(* An effect whose callback always scrolls at the speed of the defaults.   *)
animationEffectDefaultSpeed(fs, ref, inst, playing, pos, speed) ==
    IF playing
    THEN LET id == requestAnimationFrame(fs, ref)
         IN [frames |-> fs \cup {[id |-> id, inst |-> inst, scrollPos |-> pos,
                                  speed |-> DEFAULT_SETTINGS.speed]},
             ref |-> id]
    ELSE [frames |-> IF ref # NoFrame THEN cancelAnimationFrame(fs, ref) ELSE fs,
          ref |-> ref]

(* The effect body, run with the scroll callback of the current render.    *)
animationEffect(fs, ref, inst, playing, pos, speed) ==
    IF playing
    THEN LET id == requestAnimationFrame(fs, ref)
         IN [frames |-> fs \cup {[id |-> id, inst |-> inst, scrollPos |-> pos,
                                  speed |-> speed]},
             ref |-> id]
    ELSE [frames |-> IF ref # NoFrame THEN cancelAnimationFrame(fs, ref) ELSE fs,
          ref |-> ref]

(* A render in which isPlaying or scroll (scrollPos, speed) has changed.   *)
rerunAnimationEffect(fs, ref, inst, playing, pos, speed) ==
    animationEffect(animationCleanup(fs, ref), ref, inst, playing, pos, speed)

(* The state of an unmounted TeleprompterView.                             *)
NoPrompt == createNewPrompt(DEFAULT_SETTINGS, 0, 0)

Unmounted ==
    /\ prompt' = NoPrompt
    /\ isPlaying' = FALSE
    /\ scrollPos' = 0
    /\ startTime' = Undefined
    /\ animationFrameRef' = NoFrame
    /\ keyStartTime' = Undefined
    /\ offsetHeight' = 0
    /\ played' = FALSE
    /\ spans' = <<>>

(* Leaving the Teleprompter unmounts the view: the effect cleanup runs.    *)
Unmount ==
    /\ frames' = animationCleanup(frames, animationFrameRef)
    /\ Unmounted

HistoryUnmounted ==
    /\ searchTerm' = ""
    /\ sortKey' = "createdAt"
    /\ sortOrder' = "desc"

----------------------------------------------------------------------------
Init ==
    /\ \E t2 \in SecondRead(InitialClock) :
          /\ now = t2
          /\ activePrompt = createNewPrompt(DEFAULT_SETTINGS, InitialClock, t2)
    /\ view = "editor"
    /\ promptsHistory = <<>>
    /\ timers = <<>>
    /\ prompt = NoPrompt
    /\ isPlaying = FALSE
    /\ scrollPos = 0
    /\ startTime = Undefined
    /\ animationFrameRef = NoFrame
    /\ frames = {}
    /\ keyStartTime = Undefined
    /\ offsetHeight = 0
    /\ searchTerm = ""
    /\ sortKey = "createdAt"
    /\ sortOrder = "desc"
    /\ sessions = 0
    /\ changes = 0
    /\ played = FALSE
    /\ toggles = 0
    /\ spans = <<>>

----------------------------------------------------------------------------
(* EditorView.                                                             *)

handleTextChange(v) ==
    /\ view = "editor"
    /\ changes < MaxChanges
    /\ activePrompt' = [activePrompt EXCEPT !.text = v]
    /\ changes' = changes + 1
    /\ UNCHANGED <<now, view, promptsHistory, timers, tpVars, histVars, sessions, toggles>>

handleTitleChange(v) ==
    /\ view = "editor"
    /\ changes < MaxChanges
    /\ activePrompt' = [activePrompt EXCEPT !.title = v]
    /\ changes' = changes + 1
    /\ UNCHANGED <<now, view, promptsHistory, timers, tpVars, histVars, sessions, toggles>>

handleDirectionChange(d) ==
    /\ view = "editor"
    /\ changes < MaxChanges
    /\ activePrompt' = [activePrompt EXCEPT !.settings.direction = d]
    /\ changes' = changes + 1
    /\ UNCHANGED <<now, view, promptsHistory, timers, tpVars, histVars, sessions, toggles>>

onViewHistory ==
    /\ view = "editor"
    /\ view' = "history"
    /\ HistoryUnmounted
    /\ UNCHANGED <<now, promptsHistory, activePrompt, timers, tpVars, sessions, changes, toggles>>

(* handleStart, and the mount of the TeleprompterView it renders.          *)
handleStart ==
    /\ view = "editor"
    /\ sessions < MaxSessions
    /\ \E t2 \in SecondRead(now), h \in Heights :
          /\ activePrompt' = [activePrompt EXCEPT !.id = toString(now), !.createdAt = t2]
          /\ now' = t2
          /\ offsetHeight' = h
    /\ view' = "teleprompter"
    /\ prompt' = activePrompt'
    /\ isPlaying' = FALSE
    /\ scrollPos' = 0
    /\ startTime' = Undefined
    /\ animationFrameRef' = NoFrame
    /\ keyStartTime' = Undefined
    /\ played' = FALSE
    /\ spans' = parsed[prompt'.text]
    /\ sessions' = sessions + 1
    /\ UNCHANGED <<promptsHistory, timers, frames, histVars, changes, toggles>>

----------------------------------------------------------------------------
(* TeleprompterView.                                                       *)

speed == prompt.settings.speed
fontSize == prompt.settings.fontSize
mode == prompt.settings.mode

(* A togglePlay that rewinds the script when it starts to play.           *)
togglePlayRewinding(capturedStartTime) ==
    /\ view = "teleprompter"
    /\ toggles < MaxToggles
    /\ isPlaying' = ~isPlaying
    /\ scrollPos' = IF isPlaying' THEN 0 ELSE scrollPos
    /\ startTime' = IF Falsy(capturedStartTime) THEN now ELSE startTime
    /\ LET e == rerunAnimationEffect(frames, animationFrameRef, sessions,
                                     isPlaying', scrollPos', speed)
       IN /\ frames' = e.frames
          /\ animationFrameRef' = e.ref
    /\ toggles' = toggles + 1
    /\ played' = TRUE
    /\ UNCHANGED <<now, appVars, prompt, keyStartTime, offsetHeight,
                   spans, histVars, sessions, changes>>

(* togglePlay as a closure over the startTime of the render that made it.  *)
togglePlay(capturedStartTime) ==
    /\ view = "teleprompter"
    /\ toggles < MaxToggles
    /\ isPlaying' = ~isPlaying
    /\ startTime' = IF Falsy(capturedStartTime) THEN now ELSE startTime
    /\ LET e == rerunAnimationEffect(frames, animationFrameRef, sessions,
                                     isPlaying', scrollPos, speed)
       IN /\ frames' = e.frames
          /\ animationFrameRef' = e.ref
    /\ toggles' = toggles + 1
    /\ played' = TRUE
    /\ UNCHANGED <<now, appVars, prompt, scrollPos, keyStartTime, offsetHeight,
                   spans, histVars, sessions, changes>>

(* The play button calls the togglePlay of the current render.             *)
PlayButton == togglePlay(startTime)

(* The keydown listener is re-registered only when speed, fontSize or      *)
(* onBack change; it calls the togglePlay of the render that registered it.*)
KeySpace == togglePlay(keyStartTime)

(* An updater that gives the script a new id as well.                     *)
withSettingRenamed(p, key, value) ==
    [p EXCEPT !.settings[key] = value, !.id = toString(0)]

(* p => ({ ...p, settings: { ...p.settings, [key]: value } })              *)
withSetting(p, key, value) == [p EXCEPT !.settings[key] = value]

updateSetting(key, value) ==
    /\ view = "teleprompter"
    /\ changes < MaxChanges
    /\ prompt' = withSetting(prompt, key, value)
    /\ LET speedChanged == prompt'.settings.speed # speed
           fontChanged == prompt'.settings.fontSize # fontSize
           e == IF speedChanged
                THEN rerunAnimationEffect(frames, animationFrameRef, sessions,
                                          isPlaying, scrollPos, prompt'.settings.speed)
                ELSE [frames |-> frames, ref |-> animationFrameRef]
       IN /\ frames' = e.frames
          /\ animationFrameRef' = e.ref
          /\ keyStartTime' = IF speedChanged \/ fontChanged THEN startTime
                             ELSE keyStartTime
          \* the font size styles the content: its height is measured anew
          /\ offsetHeight' \in IF fontChanged THEN Heights ELSE {offsetHeight}
    /\ changes' = changes + 1
    /\ UNCHANGED <<now, appVars, isPlaying, scrollPos, startTime, played, spans,
                   histVars, sessions, toggles>>

SpeedMinus == updateSetting("speed", Max(0, speed - 5))
SpeedPlus == updateSetting("speed", Min(100, speed + 5))
SpeedSlider == \E v \in SliderSpeeds : updateSetting("speed", v)
FontSizeMinus == updateSetting("fontSize", Max(10, fontSize - 5))
FontSizePlus == updateSetting("fontSize", Min(200, fontSize + 5))
FontSizeSlider == \E v \in SliderFontSizes : updateSetting("fontSize", v)
KeyArrowUp == updateSetting("speed", Min(100, speed + 5))
KeyArrowDown == updateSetting("speed", Max(0, speed - 5))
KeyArrowRight == updateSetting("fontSize", Min(200, fontSize + 5))
KeyArrowLeft == updateSetting("fontSize", Max(10, fontSize - 5))
AlignmentButton == \E a \in Alignments : updateSetting("alignment", a)
FontStyleSelect == \E f \in FontStyles : updateSetting("fontStyle", f)
ModeButton == updateSetting("mode", IF mode = "night" THEN "day" ELSE "night")

(* A comparison that always finds content left.                           *)
contentLeftAlways(pos, height) == TRUE

(* The comparison with <= in place of <.                                   *)
contentLeftOrEqual(pos, height) == pos <= height

(* scrollPos < contentRef.current.offsetHeight                             *)
contentLeft(pos, height) == pos < height

(* prev => prev + speed / 10                                               *)
scrollStep(prev, spd) == prev + spd

(* One animation frame: the pending callback c runs.                       *)
scroll ==
    /\ scrollPos < MaxScroll
    /\ \E c \in frames :
        LET rest == frames \ {c}
            mounted == view = "teleprompter" /\ c.inst = sessions
            advance == contentLeft(c.scrollPos, offsetHeight)
            pos1 == IF mounted /\ advance THEN scrollStep(scrollPos, c.speed)
                    ELSE scrollPos
            play1 == IF mounted /\ ~advance THEN FALSE ELSE isPlaying
            id2 == requestAnimationFrame(rest, animationFrameRef)
            fs2 == rest \cup {[c EXCEPT !.id = id2]}
            e == IF play1 # isPlaying \/ pos1 # scrollPos
                 THEN rerunAnimationEffect(fs2, id2, sessions, play1, pos1, speed)
                 ELSE [frames |-> fs2, ref |-> id2]
        IN /\ scrollPos' = pos1
           /\ isPlaying' = play1
           /\ frames' = IF mounted THEN e.frames ELSE fs2
           /\ animationFrameRef' = IF mounted THEN e.ref ELSE animationFrameRef
    /\ UNCHANGED <<now, appVars, prompt, startTime, keyStartTime, offsetHeight,
                   played, spans, histVars, sessions, changes, toggles>>

(* handleFinishPrompt that puts the record at the end of the list.         *)
handleFinishPromptAppend(finished) ==
    /\ promptsHistory' = Append(promptsHistory, finished)
    /\ view' = "editor"

handleFinishPrompt(finished) ==
    /\ promptsHistory' = <<finished>> \o promptsHistory
    /\ view' = "editor"

(* A finish that takes a missing startTime to be the moment of finishing.  *)
finishedPromptDefaulted(p, st, t) ==
    [p EXCEPT !.startTime = IF st = Undefined THEN t ELSE st, !.endTime = t]

(* { ...prompt, startTime, endTime: Date.now() }                           *)
finishedPrompt(p, st, t) == [p EXCEPT !.startTime = st, !.endTime = t]

handleFinish ==
    /\ view = "teleprompter"
    /\ handleFinishPrompt(finishedPrompt(prompt, startTime, now))
    /\ Unmount
    /\ UNCHANGED <<now, activePrompt, timers, histVars, sessions, changes, toggles>>

(* A back that pauses the session when the confirmation is declined.      *)
handleBackToEditorPausing(confirmed) ==
    /\ view = "teleprompter"
    /\ IF confirmed
       THEN /\ view' = "editor"
            /\ Unmount
       ELSE /\ isPlaying' = FALSE
            /\ UNCHANGED <<view, prompt, scrollPos, startTime, animationFrameRef,
                           frames, keyStartTime, offsetHeight, played, spans>>
    /\ UNCHANGED <<now, promptsHistory, activePrompt, timers, histVars, sessions, changes, toggles>>

handleBackToEditor(confirmed) ==
    /\ view = "teleprompter"
    /\ IF confirmed
       THEN /\ view' = "editor"
            /\ Unmount
       ELSE UNCHANGED <<view, tpVars>>
    /\ UNCHANGED <<now, promptsHistory, activePrompt, timers, histVars, sessions, changes, toggles>>

BackButton == \E confirmed \in BOOLEAN : handleBackToEditor(confirmed)
KeyEscape == \E confirmed \in BOOLEAN : handleBackToEditor(confirmed)

----------------------------------------------------------------------------
(* HistoryView.                                                            *)

setSearchTerm(v) ==
    /\ view = "history"
    /\ searchTerm' = v
    /\ UNCHANGED <<now, appVars, tpVars, sortKey, sortOrder, sessions, changes, toggles>>

setSortKey(k) ==
    /\ view = "history"
    /\ sortKey' = k
    /\ UNCHANGED <<now, appVars, tpVars, searchTerm, sortOrder, sessions, changes, toggles>>

(* A sort order change that sorts the prompts array itself.                *)
setSortOrderInPlace(o) ==
    /\ view = "history"
    /\ sortOrder' = o
    /\ promptsHistory' = sort(promptsHistory, sortKey, o)
    /\ UNCHANGED <<now, view, activePrompt, timers, tpVars, searchTerm, sortKey,
                   sessions, changes, toggles>>

setSortOrder(o) ==
    /\ view = "history"
    /\ sortOrder' = o
    /\ UNCHANGED <<now, appVars, tpVars, searchTerm, sortKey, sessions, changes, toggles>>

shown == filteredAndSortedPrompts(promptsHistory, searchTerm, sortKey, sortOrder)

(* An id no record can have: the clock starts above 0.                     *)
MissingId == toString(0)

(* A load that opens the Teleprompter at once.                             *)
handleLoadPromptAndStart(promptToLoad) ==
    /\ view = "history"
    /\ Len(timers) < MaxTimers
    /\ \E t2 \in SecondRead(now) :
          /\ activePrompt' = createNewPrompt(promptToLoad.settings, now, t2)
          /\ now' = t2
    /\ timers' = Append(timers, promptToLoad)
    /\ view' = "teleprompter"
    /\ UNCHANGED <<promptsHistory, tpVars, histVars, sessions, changes, toggles>>

handleLoadPrompt(promptToLoad) ==
    /\ view = "history"
    /\ Len(timers) < MaxTimers
    /\ \E t2 \in SecondRead(now) :
          /\ activePrompt' = createNewPrompt(promptToLoad.settings, now, t2)
          /\ now' = t2
    /\ timers' = Append(timers, promptToLoad)
    /\ view' = "editor"
    /\ UNCHANGED <<promptsHistory, tpVars, histVars, sessions, changes, toggles>>

handleDeletePrompt(id, confirmed) ==
    /\ view = "history"
    /\ promptsHistory' = IF confirmed
                         THEN SelectSeq(promptsHistory, LAMBDA p : p.id # id)
                         ELSE promptsHistory
    /\ UNCHANGED <<now, view, activePrompt, timers, tpVars, histVars, sessions, changes, toggles>>

onLoadPrompt ==
    /\ view = "history"
    /\ \E i \in 1..Len(shown) : handleLoadPrompt(shown[i])

onDeletePrompt ==
    /\ view = "history"
    /\ \E id \in {shown[i].id : i \in 1..Len(shown)} \cup {MissingId},
          confirmed \in BOOLEAN :
            handleDeletePrompt(id, confirmed)

onBack ==
    /\ view = "history"
    /\ view' = "editor"
    /\ UNCHANGED <<now, promptsHistory, activePrompt, timers, tpVars, histVars,
                   sessions, changes, toggles>>

----------------------------------------------------------------------------
(* The environment: the timer of handleLoadPrompt and the clock.           *)

(* The deferred step of handleLoadPrompt.  It re-renders App, which hands  *)
(* a mounted TeleprompterView a new onBack: the keydown listener is        *)
(* registered anew.                                                        *)
loadTimeout ==
    /\ timers # <<>>
    /\ activePrompt' = [activePrompt EXCEPT !.text = Head(timers).text,
                                            !.title = Head(timers).title]
    /\ timers' = Tail(timers)
    /\ keyStartTime' = IF view = "teleprompter" THEN startTime ELSE keyStartTime
    /\ UNCHANGED <<now, view, promptsHistory, prompt, isPlaying, scrollPos, startTime,
                   animationFrameRef, frames, offsetHeight, played, spans, histVars,
                   sessions, changes, toggles>>

clockTick ==
    /\ now < MaxClock
    /\ now' = now + 1
    /\ UNCHANGED <<appVars, tpVars, histVars, sessions, changes, toggles>>

Next ==
    \/ \E v \in Texts : handleTextChange(v)
    \/ \E v \in Titles : handleTitleChange(v)
    \/ \E d \in Directions : handleDirectionChange(d)
    \/ onViewHistory
    \/ handleStart
    \/ PlayButton
    \/ KeySpace
    \/ SpeedMinus
    \/ SpeedPlus
    \/ SpeedSlider
    \/ FontSizeMinus
    \/ FontSizePlus
    \/ FontSizeSlider
    \/ KeyArrowUp
    \/ KeyArrowDown
    \/ KeyArrowRight
    \/ KeyArrowLeft
    \/ AlignmentButton
    \/ FontStyleSelect
    \/ ModeButton
    \/ scroll
    \/ handleFinish
    \/ BackButton
    \/ KeyEscape
    \/ \E v \in SearchTerms : setSearchTerm(v)
    \/ \E k \in {"createdAt", "title"} : setSortKey(k)
    \/ \E o \in {"asc", "desc"} : setSortOrder(o)
    \/ onLoadPrompt
    \/ onDeletePrompt
    \/ onBack
    \/ loadTimeout
    \/ clockTick

Spec == Init /\ [][Next]_vars

(* updateSetting called with a number no control of the view delivers.     *)
DirectSet ==
    \/ \E v \in AnySpeeds : updateSetting("speed", v)
    \/ \E v \in AnyFontSizes : updateSetting("fontSize", v)

NextDirect == Next \/ DirectSet

SpecDirect == Init /\ [][NextDirect]_vars

(* Sessions on the texts of ParseTexts: a text is typed, shown, saved.     *)
NextParse ==
    \/ \E v \in ParseTexts : handleTextChange(v)
    \/ handleStart
    \/ handleFinish

SpecParse == Init /\ [][NextParse]_vars

----------------------------------------------------------------------------
(* Properties.                                                             *)

inSession == view = "teleprompter" /\ view' = "teleprompter"

removeAt(s, i) == SubSeq(s, 1, i - 1) \o SubSeq(s, i + 1, Len(s))

historyIds == {promptsHistory[i].id : i \in 1..Len(promptsHistory)}

(* C1: within a session the first play sets startTime to the clock value,  *)
(* and no later play, pause, tick or setting change alters it.             *)
C1_StartTimeSetByFirstPlayOnly ==
    [][inSession =>
         IF played THEN startTime' = startTime
         ELSE IF played' THEN startTime' = now
         ELSE startTime' = Undefined]_vars

(* C2: in a session speed stays within 0..10 and fontSize within 1..20,    *)
(* whatever number a setter is called with.                                *)
C2_SettingsInRange ==
    view = "teleprompter" =>
        /\ speed \in 0..100
        /\ fontSize \in 10..200

(* C3 as stated: while running every tick strictly increases the offset    *)
(* until it reaches the content length; the tick at or beyond the length   *)
(* stops the machine, and the offset of a stopped machine does not move.   *)
C3_TicksStrictlyIncrease ==
    [][/\ (scroll /\ isPlaying) =>
            IF scrollPos < offsetHeight
            THEN scrollPos' > scrollPos /\ isPlaying'
            ELSE ~isPlaying' /\ scrollPos' = scrollPos
       /\ (inSession /\ ~isPlaying) => scrollPos' = scrollPos]_vars

(* C3 amended: the strict increase holds for ticks at a speed above 0; a   *)
(* tick at speed 0 leaves the offset as it is and the machine running.     *)
C3_TicksIncreaseAtPositiveSpeed ==
    [][/\ (scroll /\ isPlaying) =>
            IF scrollPos < offsetHeight
            THEN /\ isPlaying'
                 /\ IF speed > 0 THEN scrollPos' > scrollPos
                    ELSE scrollPos' = scrollPos
            ELSE ~isPlaying' /\ scrollPos' = scrollPos
       /\ (inSession /\ ~isPlaying) => scrollPos' = scrollPos]_vars

(* The content has been scrolled to its end by the ticks of a single play. *)
C3_Witness ==
    /\ view = "teleprompter"
    /\ toggles = 1 /\ played /\ ~isPlaying
    /\ offsetHeight > 0 /\ scrollPos >= offsetHeight

(* C4: once the Teleprompter is left no animation-frame callback is        *)
(* pending, and a pending callback always belongs to the mounted view.     *)
C4_NoFrameAfterExit ==
    \A f \in frames : view = "teleprompter" /\ f.inst = sessions

(* The only session was played once and then left by a confirmed back.     *)
C4_Witness ==
    /\ view = "editor"
    /\ sessions = 1 /\ toggles = 1
    /\ promptsHistory = <<>>

(* C5: a confirmed delete of id x removes exactly one record, the one with *)
(* id x, and keeps the others in order; with no such record nothing moves. *)
C5_DeleteRemovesExactlyOne ==
    [][\A id \in historyIds \cup {MissingId} :
         handleDeletePrompt(id, TRUE) =>
            IF id \in historyIds
            THEN \E i \in 1..Len(promptsHistory) :
                    /\ promptsHistory[i].id = id
                    /\ promptsHistory' = removeAt(promptsHistory, i)
            ELSE promptsHistory' = promptsHistory]_vars

(* C6: the records of the history list have pairwise distinct ids.         *)
C6_IdsUnique ==
    \A i, j \in 1..Len(promptsHistory) :
        i # j => promptsHistory[i].id # promptsHistory[j].id

(* C7: finish puts exactly one record, the finished one, at the head of    *)
(* the list, keeps the earlier list behind it, and returns to the Editor.  *)
C7_FinishPrepends ==
    [][handleFinish =>
         /\ Len(promptsHistory') = Len(promptsHistory) + 1
         /\ Tail(promptsHistory') = promptsHistory
         /\ Head(promptsHistory').id = prompt.id
         /\ Head(promptsHistory').settings = prompt.settings
         /\ Head(promptsHistory').text = prompt.text
         /\ Head(promptsHistory').title = prompt.title
         /\ view' = "editor"]_vars

(* A second session has been finished onto a list that held a record of a  *)
(* different script.                                                       *)
C7_Witness ==
    /\ view = "editor"
    /\ Len(promptsHistory) = 2
    /\ promptsHistory[1] # promptsHistory[2]

(* C8: finish is possible whether stopped or running, stamps endTime with  *)
(* the clock, and a session never played yields an undefined startTime.    *)
C8_FinishStampsEndTime ==
    /\ [](view = "teleprompter" => ENABLED handleFinish)
    /\ [][handleFinish =>
            /\ Head(promptsHistory').endTime = now
            /\ Head(promptsHistory').startTime = startTime
            /\ ~played => Head(promptsHistory').startTime = Undefined]_vars

(* A record of a session that was never played is in the history.          *)
C8_Witness ==
    /\ promptsHistory # <<>>
    /\ Head(promptsHistory).startTime = Undefined
    /\ Head(promptsHistory).endTime # Undefined
    /\ toggles = 0

(* C9: the history list changes only by a finish, which puts a record in   *)
(* front of the unchanged list, and by a confirmed delete, which removes   *)
(* records and keeps the others as they are; nothing else touches it.      *)
C9_HistoryOnlyPrependOrRemove ==
    [][promptsHistory' # promptsHistory =>
         \/ /\ view = "teleprompter"
            /\ view' = "editor"
            /\ Tail(promptsHistory') = promptsHistory
         \/ /\ view = "history"
            /\ \E id \in historyIds :
                  promptsHistory' = SelectSeq(promptsHistory, LAMBDA p : p.id # id)]_vars

(* The history view shows two records in another order than stored.        *)
C9_Witness ==
    /\ view = "history"
    /\ Len(promptsHistory) = 2
    /\ Len(shown) = 2
    /\ shown # promptsHistory

rawText(span) ==
    IF span.kind = "strong" THEN "**" \o span.text \o "**"
    ELSE IF span.kind = "bookmark" THEN "[" \o span.text \o "]"
    ELSE span.text

RECURSIVE rejoin(_)
rejoin(ss) == IF ss = <<>> THEN "" ELSE rawText(Head(ss)) \o rejoin(Tail(ss))

(* C11: the spans of the displayed script, re-joined with the delimiters   *)
(* of their kind put back, give the text of the script exactly.            *)
C11_ParseRoundTrip ==
    view = "teleprompter" => rejoin(spans) = prompt.text

(* t occurs in s at some position, letters compared without their case.   *)
occursIgnoringCase ==
    [s \in Titles \cup Texts, t \in SearchTerms |->
        \E i \in 0..(Len(s) - Len(t)) :
            \A k \in 1..Len(t) :
                lowerChar(CharAt(s, i + k)) = lowerChar(CharAt(t, k))]

found(p) ==
    \/ occursIgnoringCase[p.title, searchTerm]
    \/ occursIgnoringCase[p.text, searchTerm]

occurrences(s, r) == Cardinality({i \in 1..Len(s) : s[i] = r})

(* C12: the history view holds exactly the records whose title or text     *)
(* contains the search term, letters compared without their case: each     *)
(* such record as often as the list holds it, and no other record.         *)
C12_ViewIsTheMatchingRecords ==
    view = "history" =>
        /\ \A i \in 1..Len(shown) : found(shown[i])
        /\ \A i \in 1..Len(promptsHistory) :
              found(promptsHistory[i]) =>
                 occurrences(shown, promptsHistory[i])
                     = occurrences(promptsHistory, promptsHistory[i])
        /\ \A i \in 1..Len(shown) :
              \E j \in 1..Len(promptsHistory) : shown[i] = promptsHistory[j]
        /\ (searchTerm = "" => Len(shown) = Len(promptsHistory))

(* Of two records the view shows the one that has the term in its text     *)
(* only, in another case, and not the one that has it nowhere.             *)
C12_Witness ==
    /\ view = "history"
    /\ searchTerm = "now"
    /\ Len(promptsHistory) = 2
    /\ Len(shown) = 1
    /\ shown[1].title = UntitledPrompt
    /\ ~includes(shown[1].text, searchTerm)

keyOf(p) == IF sortKey = "createdAt" THEN p.createdAt ELSE p.title

(* C13: the view is ordered by the chosen key, non-decreasing when         *)
(* ascending and non-increasing when descending, and in both directions    *)
(* the records of one key value stand in the order the list has them in.   *)
C13_ViewOrderedAndStable ==
    view = "history" =>
        /\ \A i, j \in 1..Len(shown) :
              i < j => IF sortOrder = "asc"
                       THEN ~keyLess(shown[j], shown[i], sortKey)
                       ELSE ~keyLess(shown[i], shown[j], sortKey)
        /\ \A i \in 1..Len(shown) :
              SelectSeq(shown, LAMBDA p : keyOf(p) = keyOf(shown[i]))
                 = SelectSeq(promptsHistory,
                             LAMBDA p : found(p) /\ keyOf(p) = keyOf(shown[i]))

(* Two different records of one title are shown sorted by title,           *)
(* descending.                                                             *)
C13_Witness ==
    /\ view = "history"
    /\ sortKey = "title"
    /\ sortOrder = "desc"
    /\ Len(shown) = 2
    /\ shown[1].title = shown[2].title
    /\ shown[1] # shown[2]

SettingKeys == {"speed", "fontSize", "fontStyle", "alignment", "mode", "direction"}

(* C14: a setting mutator changes at most one field of the settings of the *)
(* script it is applied to and nothing else of the script; in a session it *)
(* leaves the play state, the offset and the start timestamp as they are.  *)
C14_SettingMutatorFrame ==
    /\ [][(inSession /\ changes' # changes) =>
            /\ \E k \in SettingKeys :
                  prompt' = [prompt EXCEPT !.settings[k] = prompt'.settings[k]]
            /\ isPlaying' = isPlaying
            /\ scrollPos' = scrollPos
            /\ startTime' = startTime]_vars
    /\ [][\A d \in Directions :
            handleDirectionChange(d) =>
               activePrompt' = [activePrompt EXCEPT !.settings.direction = d]]_vars

(* In the first session, running and scrolled, a setting has been changed. *)
C14_Witness ==
    /\ view = "teleprompter"
    /\ sessions = 1
    /\ changes = 1
    /\ isPlaying
    /\ scrollPos > 0
    /\ startTime # Undefined
    /\ prompt.settings # DEFAULT_SETTINGS

(* C15: the view is the Editor at first and changes only from the Editor  *)
(* to the Teleprompter by a start, from the Teleprompter to the Editor by  *)
(* a finish or a confirmed back, from the Editor to the History, and from  *)
(* the History to the Editor by a back or a load.                          *)
C15_ViewTransitions ==
    /\ view = "editor"
    /\ [][view' # view =>
            \/ view = "editor" /\ view' = "teleprompter" /\ handleStart
            \/ /\ view = "teleprompter" /\ view' = "editor"
               /\ handleFinish \/ handleBackToEditor(TRUE)
            \/ view = "editor" /\ view' = "history" /\ onViewHistory
            \/ /\ view = "history" /\ view' = "editor"
               /\ onBack \/ onLoadPrompt]_vars

(* A session runs on a script loaded from the History, the timer of the    *)
(* load still pending: every kind of transition has been taken.            *)
C15_Witness ==
    /\ view = "teleprompter"
    /\ timers # <<>>
    /\ promptsHistory # <<>>

(* C16: a declined back or Escape leaves the view and the session as they *)
(* are, a declined delete leaves the history list as it is, and a          *)
(* confirmed back returns to the Editor and adds no record to the list.    *)
C16_GuardsAreNoOps ==
    /\ [][handleBackToEditor(FALSE) =>
            /\ view' = view
            /\ isPlaying' = isPlaying
            /\ scrollPos' = scrollPos
            /\ startTime' = startTime
            /\ prompt' = prompt]_vars
    /\ [][\A id \in historyIds \cup {MissingId} :
            handleDeletePrompt(id, FALSE) => promptsHistory' = promptsHistory]_vars
    /\ [][handleBackToEditor(TRUE) =>
            /\ view' = "editor"
            /\ promptsHistory' = promptsHistory]_vars

(* The only session was played, paused and left by a confirmed back: the   *)
(* history is empty.                                                       *)
C16_Witness ==
    /\ view = "editor"
    /\ sessions = 1
    /\ toggles = 2
    /\ promptsHistory = <<>>

(* C17: a tick of the running machine with the offset below the content    *)
(* length adds the speed the session has at that tick, the one of the      *)
(* latest speed change, divided by ten; a tick with the offset at or above *)
(* the length stops the machine and leaves the offset as it is.            *)
C17_TickAddsLatestSpeed ==
    [][(scroll /\ isPlaying) =>
          IF scrollPos < offsetHeight
          THEN scrollPos' = scrollPos + speed /\ isPlaying'
          ELSE scrollPos' = scrollPos /\ ~isPlaying']_vars

(* One tick at the default speed 2, a change of the speed to 2.5, and one  *)
(* tick more: the offset is 0.2 + 0.25.                                    *)
C17_Witness ==
    /\ view = "teleprompter"
    /\ isPlaying
    /\ speed = 25
    /\ scrollPos = 45

(* C18: the offset is 0 when a session begins and never decreases in the  *)
(* session; only a tick of the running machine changes it, so play, pause, *)
(* setting changes, a declined back and ticks of a stopped machine do not. *)
C18_OffsetMovesOnlyByRunningTicks ==
    /\ [][handleStart => scrollPos' = 0]_vars
    /\ [][inSession =>
            /\ scrollPos' >= scrollPos
            /\ scrollPos' # scrollPos => scroll /\ isPlaying]_vars

(* The script was scrolled part of its way and paused, and a setting was   *)
(* changed then: the offset is where the last tick left it.                *)
C18_Witness ==
    /\ view = "teleprompter"
    /\ sessions = 1
    /\ toggles = 2
    /\ ~isPlaying
    /\ changes = 1
    /\ prompt.settings # DEFAULT_SETTINGS
    /\ scrollPos > 0
    /\ scrollPos < offsetHeight

(* C19: a session starts on the Editor's title, text and settings under an *)
(* id and createdAt taken from the clock, and from the start to the return *)
(* to the Editor the Editor's title, text and settings stay as they were.  *)
C19_SessionWorksOnItsOwnCopy ==
    /\ [][handleStart =>
            /\ prompt'.title = activePrompt.title
            /\ prompt'.text = activePrompt.text
            /\ prompt'.settings = activePrompt.settings
            /\ prompt'.id = toString(now)
            /\ prompt'.createdAt \in {now, now + 1}]_vars
    /\ [][view = "teleprompter" =>
            /\ activePrompt'.title = activePrompt.title
            /\ activePrompt'.text = activePrompt.text
            /\ activePrompt'.settings = activePrompt.settings]_vars

(* The Editor's script is as the load of the record r left it: no edit     *)
(* has been made since, and the deferred step of the load is pending.      *)
loadPending(r) ==
    /\ timers # <<>>
    /\ r = Head(timers)
    /\ activePrompt.title = UntitledPrompt
    /\ activePrompt.text = WelcomeText
    /\ activePrompt.settings = r.settings

(* C20: a session started after the load of r with no edit in between      *)
(* displays the text and title of r, and its finish saves a record with    *)
(* the text and title of r, also when the deferred step of the load has    *)
(* not run before the start.                                               *)
C20_SessionAfterLoadShowsLoadedText ==
    /\ [][\A i \in 1..Len(timers) :
            (handleStart /\ loadPending(timers[i])) =>
               /\ prompt'.text = timers[i].text
               /\ prompt'.title = timers[i].title]_vars
    /\ [][\A i \in 1..Len(timers) :
            (handleFinish /\ loadPending(timers[i])) =>
               /\ Head(promptsHistory').text = timers[i].text
               /\ Head(promptsHistory').title = timers[i].title]_vars

(* C21: at most one callback of the scroll loop is pending, the one whose *)
(* handle the ref holds, and none is pending while the machine is stopped. *)
C21_AtMostOnePendingFrame ==
    /\ Cardinality(frames) <= 1
    /\ \A f \in frames : f.id = animationFrameRef
    /\ ~isPlaying => frames = {}

(* The machine runs at speed 0 after it has scrolled: the tick has put     *)
(* itself back and no render has followed it.                              *)
C21_Witness ==
    /\ view = "teleprompter"
    /\ isPlaying
    /\ speed = 0
    /\ scrollPos > 0
    /\ scrollPos < offsetHeight

(* The most a tick adds: speed / 10 at the largest speed of the range     *)
(* input, max="10".                                                        *)
OneTickStep == 100

(* C22: while the content length stays as measured the offset stays below  *)
(* the length plus one tick step, whatever ticks, speed changes, pauses    *)
(* and plays are taken; a tick with the offset at or above the length, as  *)
(* after a play that follows the end of the content, stops the machine and *)
(* does not advance.                                                       *)
C22_OffsetBelowLengthPlusStep ==
    /\ [][handleStart => scrollPos' < offsetHeight' + OneTickStep]_vars
    /\ [][(/\ inSession
           /\ offsetHeight' = offsetHeight
           /\ scrollPos < offsetHeight + OneTickStep) =>
              scrollPos' < offsetHeight' + OneTickStep]_vars
    /\ [][(scroll /\ isPlaying /\ scrollPos >= offsetHeight) =>
              scrollPos' = scrollPos /\ ~isPlaying']_vars

(* Play has been pressed again after the content of the first session was  *)
(* scrolled to its end, no setting changed.                                *)
C22_Witness ==
    /\ view = "teleprompter"
    /\ sessions = 1
    /\ changes = 0
    /\ toggles = 2
    /\ isPlaying
    /\ offsetHeight > 0
    /\ scrollPos >= offsetHeight

====
